---- MODULE Spec2Model ----
(***************************************************************************)
(* Model of src/initialcode.ipynb: a velocity-Verlet molecular-dynamics    *)
(* run (run_md) with a Lennard-Jones pair force under periodic boundary    *)
(* conditions.                                                             *)
(*                                                                         *)
(* Numbers.  The program computes in float64.  The model computes in       *)
(* fixed point: a length is a whole number of grid units, Scale grid units *)
(* per unit length (sigma = 1), so the literal 0.5 of lj_force is Scale/2  *)
(* grid units.  The box length L is an even number of grid units, so 0.5*L *)
(* is a whole number.  With m = Mass and dt = Dt the products 0.5*dt*dt/m  *)
(* and 0.5*dt/m are whole numbers, so position and velocity updates are    *)
(* exact: the model has no rounding error where float64 has the round-off  *)
(* the specification calls "floating-point tolerance".  The force itself   *)
(* is quantised (FQuant) and truncated toward zero.  The one non-finite    *)
(* float the program produces, NaN (0/0 at zero separation), is the value  *)
(* NaN: every arithmetic operation propagates it and every comparison with *)
(* it is false, as in IEEE 754.                                            *)
(***************************************************************************)
EXTENDS Integers, Sequences, FiniteSets, TLC

\* ---------------------------------------------------------------- bounds
MaxN == 2          \* particles: N in 1..MaxN
MaxLh == 2         \* box length L = 2*Lh grid units, Lh in 1..MaxLh
MaxSteps == 3      \* n_steps in 0..MaxSteps
MaxDump == 2       \* dump in 1..MaxDump

\* ------------------------------------------------------- program constants
Dim == 3           \* spatial components (range(3), np.random.rand(N,3))
Sigma == 1         \* lj_force: sigma = 1
Eps == 1           \* lj_force: eps = 1
Scale == 4         \* grid units per unit length; 0.5 is Scale \div 2
Mass == 1          \* run_md parameter m
Dt == 2            \* run_md parameter dt
FQuant == 8388608  \* force quantum (2^23 real force units per model unit)
NaN == 2000000000  \* float64 nan

Sigma6 == Sigma * Sigma * Sigma * Sigma * Sigma * Sigma
Sigma7 == Sigma6 * Sigma

Comps == 1..Dim

\* ------------------------------------------------------ float64 arithmetic
IsNaN(a) == a = NaN
FAdd(a, b) == IF IsNaN(a) \/ IsNaN(b) THEN NaN ELSE a + b
FSub(a, b) == IF IsNaN(a) \/ IsNaN(b) THEN NaN ELSE a - b
FMul(a, b) == IF IsNaN(a) \/ IsNaN(b) THEN NaN ELSE a * b
FLt(a, b) == ~IsNaN(a) /\ ~IsNaN(b) /\ a < b
FGt(a, b) == ~IsNaN(a) /\ ~IsNaN(b) /\ a > b
Abs(a) == IF a < 0 THEN -a ELSE a
FAbs(a) == IF IsNaN(a) THEN NaN ELSE Abs(a)
\* np.copysign(1, a): +1 for a >= +0.0 (a difference of equal floats is +0.0)
CopySign(a) == IF a < 0 THEN -1 ELSE 1
\* a / b truncated toward zero, b > 0
Trunc(a, b) == IF a < 0 THEN -((-a) \div b) ELSE a \div b
\* exact a / b of the fixed-point products (Mass and Dt make them exact)
FDivExact(a, b) == IF IsNaN(a) THEN NaN ELSE Trunc(a, b)

RECURSIVE IterDiv(_, _, _)
IterDiv(a, d, k) == IF k = 0 THEN a ELSE IterDiv(a \div d, d, k - 1)

\* ------------------------------------------------------- vectors and arrays
ZeroVec == [l \in Comps |-> 0]
NaNVec == [l \in Comps |-> NaN]
Zeros(n) == [i \in 1..n |-> ZeroVec]
VAdd(a, b) == [l \in Comps |-> FAdd(a[l], b[l])]
VSub(a, b) == [l \in Comps |-> FSub(a[l], b[l])]

RECURSIVE DotFrom(_, _)
DotFrom(dx, l) == IF l > Dim THEN 0 ELSE FAdd(FMul(dx[l], dx[l]), DotFrom(dx, l + 1))
\* np.dot(dx, dx)
Dot(dx) == DotFrom(dx, 1)

RECURSIVE SumFrom(_, _)
SumFrom(a, i) == IF i > Len(a) THEN ZeroVec ELSE VAdd(a[i], SumFrom(a, i + 1))
\* the vector sum of the rows of an (n, 3) array
SumRows(a) == SumFrom(a, 1)

\* ------------------------------------------------------------- lj_force
\* the minimum-image step of lj_force, one component (L in grid units)
MinImage(d, L) ==
    IF FLt(FMul(2, FAbs(d)), Scale) THEN d - (L \div 2) * CopySign(d) ELSE d

\* dx = x[i,:]-x[j,:] followed by the PBC loop over l
Separation(x, i, j, L) == [l \in Comps |-> MinImage(FSub(x[i][l], x[j][l]), L)]

\* np.power(dist2, -3), dist2 > 0 in grid units squared
Dist6(d2) == IterDiv(Scale * Scale * Scale * Scale * Scale * Scale, d2, 3)

\* 24*eps*sigma7*dist7*(2*sigma6*dist6 - 1) * dist / dist2, in force quanta
LjMag(d2) ==
    LET dist6 == Dist6(d2)
    IN  (24 * Eps * Sigma7 * dist6 * (2 * Sigma6 * dist6 - 1)) \div FQuant

\* lj_f for one pair, from the corrected separation dx
LjPair(dx) ==
    LET dist2 == Dot(dx)
    IN  IF IsNaN(dist2) \/ dist2 = 0
        THEN NaNVec
        ELSE LET mag == LjMag(dist2)
             IN  [l \in Comps |-> Trunc(mag * Scale * dx[l], dist2)]

\* the pairs in the order the two loops visit them
RECURSIVE PairsFrom(_, _, _)
PairsFrom(i, j, n) ==
    IF i > n - 1 THEN <<>>
    ELSE IF j > n THEN PairsFrom(i + 1, i + 2, n)
    ELSE <<(<<i, j>>)>> \o PairsFrom(i, j + 1, n)
Pairs(n) == PairsFrom(1, 2, n)

\* f[i] -= lj_f ; f[j] += lj_f
Accumulate(f, i, j, ljf) ==
    LET fi == [f EXCEPT ![i] = VSub(f[i], ljf)]
    IN  [fi EXCEPT ![j] = VAdd(fi[j], ljf)]

\* dx taken as a view of row i of x: the correction is written into x
PairPositionsView(x, i, j, dx) == [x EXCEPT ![i] = dx]

\* what one pair's evaluation leaves in the positions array: dx is a new
\* array (the difference of two rows), so correcting and normalising it
\* writes nothing into x
PairPositions(x, i, j, dx) == x

RECURSIVE LjLoop(_, _, _, _)
LjLoop(st, L, ps, k) ==
    IF k > Len(ps) THEN st
    ELSE LET i == ps[k][1]
             j == ps[k][2]
             dx == Separation(st.x, i, j, L)
         IN  LjLoop([f |-> Accumulate(st.f, i, j, LjPair(dx)),
                     x |-> PairPositions(st.x, i, j, dx)], L, ps, k + 1)

\* lj_force(x, L): the returned force array f and the positions array x as
\* the call leaves it
LjForce(x, L) == LjLoop([f |-> Zeros(Len(x)), x |-> x], L, Pairs(Len(x)), 1)

\* compute_forces(x, L)
ComputeForces(x, L) == LjForce(x, L)

\* ------------------------------------------------ velocity-Verlet updates
\* v*dt + 0.5*dt*dt*f/m, one component
Displacement(vc, fc) == FAdd(FMul(vc, Dt), FDivExact(FMul(Dt * Dt, fc), 2 * Mass))

\* the wrap with the lower test written <= 0
WrapInclusive(c, L) == IF FLt(c, 1) THEN c + L ELSE IF FGt(c, L) THEN c - L ELSE c

\* the wrap into the central box, one component
Wrap(c, L) == IF FLt(c, 0) THEN c + L ELSE IF FGt(c, L) THEN c - L ELSE c

\* velocity_verlet_update_positions(x, v, f, m, dt, L): x as the call leaves it
VvPositions(x, v, f, L) ==
    [i \in 1..Len(x) |->
        [l \in Comps |-> Wrap(FAdd(x[i][l], Displacement(v[i][l], f[i][l])), L)]]

\* velocity_verlet_update_velocities(v, f0, f1, m, dt): v as the call leaves it
VvVelocities(v, fa, fb) ==
    [i \in 1..Len(v) |->
        [l \in Comps |->
            FAdd(v[i][l], FDivExact(FMul(Dt, FAdd(fa[i][l], fb[i][l])), 2 * Mass))]]

\* np.copy(f1)
NpCopy(f) == f

\* line 41 with the carry lost: f0 keeps the old array
CarriedStale(fa, fb) == fa
\* f0 = np.copy(f1): the array f0 names afterwards
Carried(fa, fb) == NpCopy(fb)

\* the test taken on the 1-based step number
DumpDueOneBased(s, d) == (s + 1) % d = 0

\* step % dump == 0
DumpDue(s, d) == s % d = 0

\* the frame tagged with the 1-based step number
WriteTrajectoryFrameOneBased(fr, x, s) ==
    Append(fr, [n |-> Len(x), step |-> s + 1, x |-> x])

\* write_trajectory_frame(x, traj_file, step): the file's frames afterwards
WriteTrajectoryFrame(fr, x, s) == Append(fr, [n |-> Len(x), step |-> s, x |-> x])

\* ------------------------------------------------------------ the inputs
\* initialize_positions: components in [0, L).  The three rows give, per
\* pair, equal rows, rows one grid unit apart in one component and rows one
\* grid unit apart in every component, and a row one step short of the
\* upper face of the box.
PosChoices(L) == {<<1, 1, 1>>, <<0, 1, 1>>, <<L - 1, 0, L - 2>>}
\* initialize_velocities, in grid units per unit time (the temperature T
\* only scales the draw)
VelChoices == {<<0, 0, 0>>, <<-1, -1, -1>>, <<-1, 1, 1>>}

\* ---------------------------------------------------------------- state
VARIABLES
    pc,         \* position in run_md
    N, L,       \* particle count; box length in grid units
    n_steps, dump,
    x, v,       \* positions and velocities, (N, 3) arrays
    f0, f1,     \* carried and new force arrays (<<>> while unbound)
    step,       \* the loop variable
    traj_file,  \* "none", "open" or "closed"
    frames,     \* the frames written to traj.xyz
    x0, v0,     \* history: the initial positions and velocities
    xs,         \* history: the positions at the start of the current step
    bigMove     \* history: some component has moved by L or more in a step

vars == <<pc, N, L, n_steps, dump, x, v, f0, f1, step, traj_file, frames,
          x0, v0, xs, bigMove>>

params == <<N, L, n_steps, dump, x0, v0>>

Init ==
    /\ N \in 1..MaxN
    /\ \E lh \in 1..MaxLh : L = 2 * lh
    /\ n_steps \in 0..MaxSteps
    /\ dump \in 1..MaxDump
    /\ x \in [1..N -> PosChoices(L)]
    /\ v \in [1..N -> VelChoices]
    /\ x0 = x /\ v0 = v /\ xs = x
    /\ f0 = <<>> /\ f1 = <<>>
    /\ step = 0
    /\ traj_file = "none"
    /\ frames = <<>>
    /\ bigMove = FALSE
    /\ pc = "init"

\* line 24: f0 = compute_forces(x, L)
ComputeF0 ==
    /\ pc = "init"
    /\ LET cf == ComputeForces(x, L)
       IN  f0' = cf.f /\ x' = cf.x
    /\ pc' = "open"
    /\ UNCHANGED <<params, v, f1, step, traj_file, frames, xs, bigMove>>

\* line 27: traj_file = open("traj.xyz", 'w')
OpenFile ==
    /\ pc = "open"
    /\ traj_file' = "open"
    /\ pc' = "loop"
    /\ UNCHANGED <<params, x, v, f0, f1, step, frames, xs, bigMove>>

\* line 27, open raising OSError: run_md ends there
OpenFail ==
    /\ pc = "open"
    /\ pc' = "aborted"
    /\ UNCHANGED <<params, x, v, f0, f1, step, traj_file, frames, xs, bigMove>>

\* some component's displacement is not a number of magnitude below L
MovesByL(vv, ff, bl) ==
    \E i \in 1..Len(vv) : \E l \in Comps :
        ~FLt(FAbs(Displacement(vv[i][l], ff[i][l])), bl)

\* lines 29, 32: the loop takes a step and propagates the positions
UpdatePositions ==
    /\ pc = "loop"
    /\ step < n_steps
    /\ x' = VvPositions(x, v, f0, L)
    /\ xs' = x
    /\ bigMove' = (bigMove \/ MovesByL(v, f0, L))
    /\ pc' = "forces"
    /\ UNCHANGED <<params, v, f0, f1, step, traj_file, frames>>

\* line 29: range(n_steps) is exhausted
LoopEnd ==
    /\ pc = "loop"
    /\ step >= n_steps
    /\ pc' = "close"
    /\ UNCHANGED <<params, x, v, f0, f1, step, traj_file, frames, xs, bigMove>>

\* line 35: f1 = compute_forces(x, L)
ComputeF1 ==
    /\ pc = "forces"
    /\ LET cf == ComputeForces(x, L)
       IN  f1' = cf.f /\ x' = cf.x
    /\ pc' = "vel"
    /\ UNCHANGED <<params, v, f0, step, traj_file, frames, xs, bigMove>>

\* line 38: velocity_verlet_update_velocities(v, f0, f1, m, dt)
UpdateVelocities ==
    /\ pc = "vel"
    /\ v' = VvVelocities(v, f0, f1)
    /\ pc' = "carry"
    /\ UNCHANGED <<params, x, f0, f1, step, traj_file, frames, xs, bigMove>>

\* line 41: f0 = np.copy(f1)
CarryForces ==
    /\ pc = "carry"
    /\ f0' = Carried(f0, f1)
    /\ pc' = "dump"
    /\ UNCHANGED <<params, x, v, f1, step, traj_file, frames, xs, bigMove>>

\* lines 43-44: the step is due and the frame is written
WriteFrame ==
    /\ pc = "dump"
    /\ DumpDue(step, dump)
    /\ frames' = WriteTrajectoryFrame(frames, x, step)
    /\ step' = step + 1
    /\ pc' = "loop"
    /\ UNCHANGED <<params, x, v, f0, f1, traj_file, xs, bigMove>>

\* lines 43-44: the step is due and a write raises OSError, which nothing
\* in run_md catches: run_md ends there (what the failed write left in the
\* file is not modelled)
WriteFail ==
    /\ pc = "dump"
    /\ DumpDue(step, dump)
    /\ pc' = "aborted"
    /\ UNCHANGED <<params, x, v, f0, f1, step, traj_file, frames, xs, bigMove>>

\* line 43: the step is not due
SkipFrame ==
    /\ pc = "dump"
    /\ ~DumpDue(step, dump)
    /\ step' = step + 1
    /\ pc' = "loop"
    /\ UNCHANGED <<params, x, v, f0, f1, traj_file, frames, xs, bigMove>>

\* line 47: traj_file.close()
CloseFile ==
    /\ pc = "close"
    /\ traj_file' = "closed"
    /\ pc' = "done"
    /\ UNCHANGED <<params, x, v, f0, f1, step, frames, xs, bigMove>>

Next ==
    \/ ComputeF0
    \/ OpenFile
    \/ OpenFail
    \/ UpdatePositions
    \/ LoopEnd
    \/ ComputeF1
    \/ UpdateVelocities
    \/ CarryForces
    \/ WriteFrame
    \/ WriteFail
    \/ SkipFrame
    \/ CloseFile

Spec == Init /\ [][Next]_vars

\* ------------------------------------------------- the run as a function
\* one pass of the loop body, lines 32-41, on [x, v, f]
StepOnce(s, bl) ==
    LET x1 == VvPositions(s.x, s.v, s.f, bl)
        cf == ComputeForces(x1, bl)
    IN  [x |-> cf.x, v |-> VvVelocities(s.v, s.f, cf.f), f |-> NpCopy(cf.f)]

\* [x, v, f0] after k passes of the loop from the initial arrays
RECURSIVE After(_)
After(k) ==
    IF k = 0
    THEN LET cf == ComputeForces(x0, L) IN [x |-> cf.x, v |-> v0, f |-> cf.f]
    ELSE LET prev == After(k - 1) IN StepOnce(prev, L)

\* ------------------------------------------------------------ the claims
InBox(c, bl) == ~IsNaN(c) /\ 0 <= c /\ c < bl
AllInBox(a, bl) == \A i \in 1..Len(a) : \A l \in Comps : InBox(a[i][l], bl)
NoNaN(a) == \A i \in 1..Len(a) : \A l \in Comps : ~IsNaN(a[i][l])
NoCoincident(a) == \A i \in 1..Len(a) : \A j \in 1..Len(a) : i < j => a[i] # a[j]
\* sum over the particles of mass times velocity
Momentum(a) == [l \in Comps |-> FMul(Mass, SumRows(a)[l])]
\* the step tags of the frames, in file order
Tags(fr) == [k \in 1..Len(fr) |-> fr[k].step]
\* the step indices below k that are multiples of d, increasing
RECURSIVE DueSteps(_, _)
DueSteps(k, d) ==
    IF k = 0 THEN <<>>
    ELSE IF (k - 1) % d = 0 THEN Append(DueSteps(k - 1, d), k - 1)
    ELSE DueSteps(k - 1, d)
\* the minimum-image correction the specification states
SpecImage(d, bl) == IF 2 * Abs(d) > bl THEN d - bl * CopySign(d) ELSE d

\* C1: after initialisation and after every integrator step, in a run in
\* which no component has moved by L or more in one step, every position
\* component lies in [0, L).
C1_PositionsInBox == ~bigMove => AllInBox(x, L)

\* C2: for positions in [0, L), every pair i < j and every component, the
\* image correction of lj_force shifts the separation by one box length
\* toward zero when its magnitude exceeds L/2 and leaves it unchanged
\* otherwise, so the corrected magnitude is at most L/2.
C2_MinimumImage ==
    AllInBox(x, L) =>
        \A i \in 1..N : \A j \in 1..N : \A l \in Comps :
            i < j =>
                LET d == x[i][l] - x[j][l]
                IN  /\ MinImage(d, L) = SpecImage(d, L)
                    /\ 2 * Abs(MinImage(d, L)) <= L

\* C3: for every configuration in which no two particles coincide, the
\* array compute_forces returns sums to the zero vector.
C3_ForcesSumToZero ==
    (AllInBox(x, L) /\ NoCoincident(x)) => SumRows(ComputeForces(x, L).f) = ZeroVec

\* Supporting C3: whenever the returned array holds no NaN it sums to zero.
ForcesSumToZeroWhenFinite ==
    NoNaN(ComputeForces(x, L).f) => SumRows(ComputeForces(x, L).f) = ZeroVec

\* C4: after every integrator step the total momentum equals the total
\* momentum of the initial velocities.
C4_MomentumConserved ==
    pc \in {"carry", "dump", "loop", "close", "done"} => Momentum(v) = Momentum(v0)

\* Supporting C4: while the velocities hold no NaN, momentum is conserved;
\* a NaN arises only in a box shorter than one unit length (0.5*L < 0.5).
MomentumConservedWhenFinite ==
    /\ NoNaN(v) => Momentum(v) = Momentum(v0)
    /\ ~NoNaN(v) => L < Scale

\* C5: frames are written at exactly the step indices that are multiples
\* of dump, once each and in increasing order, each carrying the particle
\* count, the step index and the positions current at the write; a run that
\* completes has taken all n_steps steps.
C5_FramesAtDumpSteps ==
    /\ Tags(frames) = DueSteps(step, dump)
    /\ \A k \in 1..Len(frames) : frames[k].n = N
    /\ (pc = "loop" /\ step > 0 /\ (step - 1) % dump = 0) => frames[Len(frames)].x = x
    /\ pc = "done" => step = n_steps

C5_Witness ==
    pc = "done" /\ dump = 2 /\ n_steps = 3 /\ Tags(frames) = <<0, 2>>

\* C6: no run ends, normally or on an error after the file was opened,
\* with the trajectory file still open.
C6_FileReleased == pc \in {"done", "aborted"} => traj_file # "open"

\* C7: at the start and end of every step f0 is the force of the current
\* positions; the position update used the force of the positions at the
\* start of the step; f1 is the force of the wrapped positions; the
\* velocity update leaves f0 (and, by the last line, f1) as it was; f1 is
\* carried into f0.
C7_CarriedForceIsCurrent ==
    /\ pc \in {"open", "loop", "dump", "close", "done", "aborted"}
          => f0 = ComputeForces(x, L).f
    /\ pc = "forces"
          => (f0 = ComputeForces(xs, L).f /\ x = VvPositions(xs, v, f0, L))
    /\ pc = "vel" => f1 = ComputeForces(x, L).f
    /\ pc = "carry" => f0 = ComputeForces(xs, L).f
    /\ pc = "dump" => f0 = f1

C7_Witness ==
    /\ pc = "dump"
    /\ NoNaN(f0)
    /\ NoNaN(ComputeForces(xs, L).f)
    /\ f0 # ComputeForces(xs, L).f

\* what a step that is a call of compute_forces must leave as it was
CallLeavesState ==
    /\ x' = x
    /\ v' = v
    /\ frames' = frames
    /\ traj_file' = traj_file
    /\ (pc = "forces" => f0' = f0)
CallIsPure == (pc \in {"init", "forces"}) => CallLeavesState

\* C8: a call of compute_forces leaves the positions array, the
\* velocities, the carried forces and the trajectory file as they were.
C8_ComputeForcesPure ==
    [][CallIsPure]_vars

C8_Witness ==
    pc = "vel" /\ N >= 2 /\ NoNaN(f1) /\ f1 # Zeros(N) /\ x = VvPositions(xs, v, f0, L)

\* C9: a single particle with zero initial velocity has zero force at
\* every step and keeps its initial position and velocity.
C9_SingleParticleAtRest ==
    (N = 1 /\ v0 = Zeros(1)) =>
        /\ x = x0
        /\ v = v0
        /\ f0 \in {<<>>, Zeros(1)}
        /\ f1 \in {<<>>, Zeros(1)}

C9_Witness ==
    N = 1 /\ v0 = Zeros(1) /\ pc = "done" /\ step >= 2 /\ f1 = Zeros(1)

\* C10: when the run has ended, every frame of the file tagged s holds the
\* positions after s+1 completed passes of the loop (so none holds the
\* configuration before the first pass); a run of no steps writes no frame.
C10_FrameAfterStep ==
    /\ pc \in {"done", "aborted"} =>
          \A k \in 1..Len(frames) : frames[k].x = After(frames[k].step + 1).x
    /\ n_steps = 0 => frames = <<>>

C10_Witness ==
    /\ pc = "done"
    /\ Len(frames) >= 2
    /\ NoNaN(frames[2].x)
    /\ frames[1].x # x0
    /\ frames[2].x # frames[1].x

====
